---------------------------- MODULE Spec2Model ----------------------------
(***************************************************************************)
(* A model of src/enhanced_whisper.py: EnhancedTranscriber.transcribe (the *)
(* three-stage pipeline with its single recovery boundary), _save_outputs  *)
(* (the writer of the .srt, .txt and .json files) and _format_timestamp.   *)
(*                                                                         *)
(* Time.  A Python float number of seconds is modelled as a whole number   *)
(* of ticks, TicksPerMs ticks to the millisecond, so that values between   *)
(* two milliseconds exist and truncation differs from rounding.  Binary    *)
(* floating-point rounding of the product seconds * 1000 is not modelled.  *)
(*                                                                         *)
(* Strings.  A rendered string is a sequence of pieces; digits and         *)
(* punctuation are one-character pieces, a segment's text and a speaker    *)
(* label are opaque pieces.  A file is a sequence of lines.                *)
(*                                                                         *)
(* Collaborators (faster_whisper, whisperx, gc, torch) are outside the     *)
(* source: each call either returns or raises an Exception, chosen         *)
(* nondeterministically.  What faster_whisper yields are Segment objects   *)
(* (fields read as attributes, line 89); what whisperx returns are dicts   *)
(* (fields read by subscript, line 141).  A Segment object does not        *)
(* support subscripting by a string: segment['start'] raises TypeError.    *)
(***************************************************************************)
EXTENDS Integers, Sequences, FiniteSets, TLC

VARIABLES
    align_output,      \* parameter of transcribe
    detect_speakers,   \* parameter of transcribe
    self_device,       \* self.device, set by __init__
    cuda_available,    \* what torch.cuda.is_available() answers
    recognition,       \* the segments the recognition stream will yield
    pc,                \* position in transcribe
    segments_list,     \* local of transcribe
    device,            \* local of transcribe (line 79)
    alignment_model,   \* local of transcribe: "unbound", "loaded", "deleted"
    diarize_model,     \* local of transcribe: "unbound", "loaded", "deleted"
    result_aligned,    \* local of transcribe: [bound, segments]
    gc_collected,      \* gc.collect() has run
    cache_emptied,     \* torch.cuda.empty_cache() has run
    warnings,          \* number of logging.warning calls
    calls,             \* the collaborator calls made so far
    raised_in,         \* the collaborator call that raised, or "none"
    saved,             \* the argument _save_outputs was called with
    files,             \* the three output files
    outcome,           \* "running", "returned" or "raised"
    fmt_in,            \* argument of a direct _format_timestamp call
    fmt_out            \* its result, <<>> before the call

vars == <<align_output, detect_speakers, self_device, cuda_available,
          recognition, pc, segments_list, device, alignment_model,
          diarize_model, result_aligned, gc_collected, cache_emptied,
          warnings, calls, raised_in, saved, files, outcome, fmt_in, fmt_out>>

-----------------------------------------------------------------------------
(* Bounds of the model *)

MaxSegs == 2

TicksPerMs == 2

TicksPerSecond == 1000 * TicksPerMs

-----------------------------------------------------------------------------
(* _format_timestamp *)

DigitChars == <<"0", "1", "2", "3", "4", "5", "6", "7", "8", "9">>

RECURSIVE Decimal(_)
\* str() of a non-negative int
Decimal(n) ==
    IF n < 10 THEN <<DigitChars[n + 1]>>
    ELSE Decimal(n \div 10) \o <<DigitChars[(n % 10) + 1]>>

RECURSIVE Zeros(_)
Zeros(k) == IF k <= 0 THEN <<>> ELSE <<"0">> \o Zeros(k - 1)

\* the format specs :02d and :03d : zero padding to a MINIMUM width
ZeroPad(n, width) ==
    LET s == Decimal(n) IN Zeros(width - Len(s)) \o s

\* hours = int(seconds // 3600)
HoursOf(seconds) == seconds \div (3600 * TicksPerSecond)

\* minutes = int((seconds % 3600) // 60)
MinutesOf(seconds) ==
    (seconds % (3600 * TicksPerSecond)) \div (60 * TicksPerSecond)

\* secs = int(seconds % 60)
SecsOf(seconds) == (seconds % (60 * TicksPerSecond)) \div TicksPerSecond

\* millisecs rounded to the nearest millisecond instead of truncated
MillisRounded(seconds) ==
    ((seconds % TicksPerSecond) * 1000 + (TicksPerSecond \div 2))
        \div TicksPerSecond

\* millisecs = int((seconds * 1000) % 1000).  In ticks, seconds * 1000 is
\* t * 1000 / TicksPerSecond; whole seconds contribute multiples of 1000,
\* so the value mod 1000 is that of the sub-second part (t % TicksPerSecond).
MillisOf(seconds) == ((seconds % TicksPerSecond) * 1000) \div TicksPerSecond

format_timestamp(seconds) ==
    ZeroPad(HoursOf(seconds), 2) \o <<":">> \o
    ZeroPad(MinutesOf(seconds), 2) \o <<":">> \o
    ZeroPad(SecsOf(seconds), 2) \o <<",">> \o
    ZeroPad(MillisOf(seconds), 3)

-----------------------------------------------------------------------------
(* The data: Segment objects of faster_whisper and dicts of whisperx *)

Texts == {"konnichiwa", "arigatou"}

Speakers == {"SPEAKER_00", "SPEAKER_01"}

\* a duration with a sub-millisecond part: 4.2 s plus one tick
SegTicks == 4200 * TicksPerMs + 1

\* a word of word_timestamps=True (attributes word, start, end)
WordObj(text, start, end) ==
    [type |-> "Word", word |-> text, start |-> start, end |-> end]

\* a segment as the recognition stream yields it (attributes, no subscript)
SegmentObj(i, text, words) ==
    [type  |-> "Segment",
     start |-> (i - 1) * SegTicks,
     end   |-> i * SegTicks,
     text  |-> text,
     words |-> words]

\* what the recognition stream can yield: 0..MaxSegs segments in time order;
\* s.words is None or a list, and (s.words or []) reads both empty cases as []
RawResults ==
    UNION {
        {[i \in 1..n |-> SegmentObj(i, tx[i], IF wd[i] THEN
                            <<WordObj(tx[i], (i - 1) * SegTicks, i * SegTicks)>>
                          ELSE <<>>)] :
            tx \in [1..n -> Texts], wd \in [1..n -> BOOLEAN]} :
        n \in 0..MaxSegs}

\* lines 86-97: one dict per segment, read through attributes
ToWhisperX(segments) ==
    [i \in 1..Len(segments) |->
        [type  |-> "dict",
         start |-> segments[i].start,
         end   |-> segments[i].end,
         text  |-> segments[i].text,
         words |-> [j \in 1..Len(segments[i].words) |->
                      [type  |-> "dict",
                       word  |-> segments[i].words[j].word,
                       start |-> segments[i].words[j].start,
                       end   |-> segments[i].words[j].end]]]]

\* the refinements whisperx.align may apply to a boundary, in ticks
Refinements == {0, TicksPerMs}

\* whisperx.align returning {"segments": [...]}: the same texts with refined
\* boundaries; the dicts carry no speaker key
AlignResult(input, d) ==
    [i \in 1..Len(input) |->
        [type  |-> "dict",
         start |-> input[i].start + d,
         end   |-> input[i].end - d,
         text  |-> input[i].text,
         words |-> input[i].words]]

\* the diarization result: for each segment a speaker label, or "none" when
\* no labelled time range overlaps it
Labellings(n) == [1..n -> Speakers \cup {"none"}]

\* whisperx.assign_word_speakers: adds the speaker key where a label exists
AssignResult(labels, aligned) ==
    [i \in 1..Len(aligned) |->
        IF labels[i] = "none" THEN aligned[i]
        ELSE [k \in DOMAIN aligned[i] \cup {"speaker"} |->
                IF k = "speaker" THEN labels[i] ELSE aligned[i][k]]]

-----------------------------------------------------------------------------
(* _save_outputs *)

\* segment['start'] works on a dict and raises TypeError on a Segment object
Subscriptable(segment) == segment.type = "dict"

\* "HH:MM:SS,mmm --> HH:MM:SS,mmm"
StampSpan(segment) ==
    format_timestamp(segment.start) \o <<" --> ">> \o
    format_timestamp(segment.end)

\* a text line that takes every prefix from the first segment of the list
TextLineFirstSpeaker(segments, i) ==
    IF "speaker" \in DOMAIN segments[1]
    THEN <<"[", segments[1].speaker, "] ", segments[i].text>>
    ELSE <<segments[i].text>>

\* lines 143-145 and 153-155
TextLine(segments, i) ==
    IF "speaker" \in DOMAIN segments[i]
    THEN <<"[", segments[i].speaker, "] ", segments[i].text>>
    ELSE <<segments[i].text>>

RECURSIVE SrtFrom(_, _)
\* lines 138-146 from the i-th segment on: [lines, raised].  print(f"{i}")
\* runs before segment['start'] is evaluated.
SrtFrom(segments, i) ==
    IF i > Len(segments) THEN [lines |-> <<>>, raised |-> FALSE]
    ELSE IF ~Subscriptable(segments[i])
         THEN [lines |-> <<Decimal(i)>>, raised |-> TRUE]
         ELSE LET rest == SrtFrom(segments, i + 1)
              IN  [lines  |-> <<Decimal(i), StampSpan(segments[i]),
                                TextLine(segments, i), <<>>>> \o rest.lines,
                   raised |-> rest.raised]

RECURSIVE TxtFrom(_, _)
\* lines 150-156 from the i-th segment on: [lines, raised]
TxtFrom(segments, i) ==
    IF i > Len(segments) THEN [lines |-> <<>>, raised |-> FALSE]
    ELSE IF ~Subscriptable(segments[i])
         THEN [lines |-> <<>>, raised |-> TRUE]
         ELSE LET rest == TxtFrom(segments, i + 1)
              IN  [lines  |-> <<<<"[">> \o StampSpan(segments[i]) \o <<"]">>,
                                TextLine(segments, i), <<>>>> \o rest.lines,
                   raised |-> rest.raised]

\* json.dump of the list of dicts: every key of every dict, in order
JsonDump(segments) ==
    [i \in 1..Len(segments) |->
        [k \in DOMAIN segments[i] \ {"type"} |->
            IF k = "words"
            THEN [j \in 1..Len(segments[i].words) |->
                    [w \in DOMAIN segments[i].words[j] \ {"type"} |->
                        segments[i].words[j][w]]]
            ELSE segments[i][k]]]

NoFile == [exists |-> FALSE, content |-> <<>>]

NoFiles == [srt |-> NoFile, txt |-> NoFile, json |-> NoFile]

\* lines 134-161: the files left behind and whether the call raised.  A
\* file exists once opened; an exception leaves what was printed so far.
save_outputs(segments) ==
    LET srt == SrtFrom(segments, 1)
        txt == TxtFrom(segments, 1)
    IN  IF srt.raised
        THEN [files  |-> [NoFiles EXCEPT
                            !.srt = [exists |-> TRUE, content |-> srt.lines]],
              raised |-> TRUE]
        ELSE IF txt.raised
        THEN [files  |-> [NoFiles EXCEPT
                            !.srt = [exists |-> TRUE, content |-> srt.lines],
                            !.txt = [exists |-> TRUE, content |-> txt.lines]],
              raised |-> TRUE]
        ELSE [files  |-> [srt  |-> [exists |-> TRUE, content |-> srt.lines],
                          txt  |-> [exists |-> TRUE, content |-> txt.lines],
                          json |-> [exists |-> TRUE,
                                    content |-> JsonDump(segments)]],
              raised |-> FALSE]

-----------------------------------------------------------------------------
(* transcribe *)

Unbound == [bound |-> FALSE, segments |-> <<>>]

NotSaved == [called |-> FALSE, segments |-> <<>>]

\* main, lines 211-216: detect_speakers passed by the command line
MainDetectSpeakers(no_speakers, args_device) ==
    ~no_speakers /\ args_device = "cuda"

\* the pipeline's state before transcribe starts
Idle ==
    /\ segments_list = <<>>
    /\ device = "unset"
    /\ alignment_model = "unbound"
    /\ diarize_model = "unbound"
    /\ result_aligned = Unbound
    /\ gc_collected = FALSE
    /\ cache_emptied = FALSE
    /\ warnings = 0
    /\ calls = {}
    /\ raised_in = "none"
    /\ saved = NotSaved
    /\ files = NoFiles
    /\ outcome = "running"

\* transcribe called by main (lines 206-216) or directly with any arguments
Init ==
    /\ cuda_available \in BOOLEAN
    /\ self_device \in {"cpu", "cuda"}
    /\ align_output \in BOOLEAN
    /\ \/ detect_speakers \in BOOLEAN
       \/ \E no_speakers \in BOOLEAN :
            detect_speakers = MainDetectSpeakers(no_speakers, self_device)
    /\ recognition \in RawResults
    /\ pc = "transcribe"
    /\ Idle
    /\ fmt_in = 0
    /\ fmt_out = <<>>

inputs == <<align_output, detect_speakers, self_device, cuda_available,
            recognition, fmt_in, fmt_out>>

\* an exception that is swallowed: the run goes on to the writer
PropagateSwallowed ==
    /\ outcome' = outcome
    /\ pc' = "save"

\* an exception leaves transcribe (no handler around lines 54-72 and 129)
Propagate ==
    /\ outcome' = "raised"
    /\ pc' = "exit"

\* a handler that falls back to the last result a stage produced
HandlerSegmentsLastGood ==
    IF result_aligned.bound THEN result_aligned.segments ELSE segments_list

\* segments_list after the handler of lines 125-126, which assigns nothing:
\* line 123 is the only assignment and it follows the whole try body
HandlerSegments == segments_list

\* lines 125-126: an Exception raised inside the try block by `step`
Caught(step) ==
    /\ raised_in' = step
    /\ warnings' = warnings + 1
    /\ segments_list' = HandlerSegments
    /\ pc' = "save"

\* lines 54-69: faster_model.transcribe returns a lazy stream, or raises
Recognize ==
    /\ pc = "transcribe"
    /\ calls' = calls \cup {"faster_model.transcribe"}
    /\ \E ok \in BOOLEAN :
         IF ok
         THEN /\ pc' = "list"
              /\ UNCHANGED <<outcome, raised_in>>
         ELSE /\ Propagate
              /\ raised_in' = "faster_model.transcribe"
    /\ UNCHANGED <<inputs, segments_list, device, alignment_model,
                   diarize_model, result_aligned, gc_collected, cache_emptied,
                   warnings, saved, files>>

\* the test of line 75 ignored: the alignment stage always entered
AfterListAlwaysAlign == "load_align"

\* line 75: if align_output
AfterList == IF align_output THEN "load_align" ELSE "save"

\* line 72: segments_list = list(segments); then the test of line 75
ListSegments ==
    /\ pc = "list"
    /\ calls' = calls \cup {"list"}
    /\ \E ok \in BOOLEAN :
         IF ok
         THEN /\ segments_list' = recognition
              /\ pc' = AfterList
              /\ UNCHANGED <<outcome, raised_in>>
         ELSE /\ Propagate
              /\ raised_in' = "list"
              /\ segments_list' = segments_list
    /\ UNCHANGED <<inputs, device, alignment_model, diarize_model,
                   result_aligned, gc_collected, cache_emptied, warnings,
                   saved, files>>

\* lines 79-83: device selection and whisperx.load_align_model
LoadAlignModel ==
    /\ pc = "load_align"
    /\ device' = IF cuda_available THEN "cuda" ELSE "cpu"
    /\ calls' = calls \cup {"load_align_model"}
    /\ \E ok \in BOOLEAN :
         IF ok
         THEN /\ alignment_model' = "loaded"
              /\ pc' = "align"
              /\ UNCHANGED <<raised_in, warnings, segments_list>>
         ELSE /\ Caught("load_align_model")
              /\ alignment_model' = alignment_model
    /\ UNCHANGED <<inputs, diarize_model, result_aligned, gc_collected,
                   cache_emptied, saved, files, outcome>>

\* the test of line 109 without its device half
DiarizationGateNoDevice == detect_speakers

\* line 109: if detect_speakers and device != "cpu"
DiarizationGate == detect_speakers /\ device # "cpu"

\* lines 86-109: whisperx.align on the converted segments, then the gate
Align ==
    /\ pc = "align"
    /\ calls' = calls \cup {"align"}
    /\ \E ok \in BOOLEAN, d \in Refinements :
         IF ok
         THEN /\ result_aligned' =
                    [bound    |-> TRUE,
                     segments |-> AlignResult(ToWhisperX(segments_list), d)]
              /\ pc' = IF DiarizationGate THEN "diarize_load" ELSE "cleanup"
              /\ UNCHANGED <<raised_in, warnings, segments_list>>
         ELSE /\ Caught("align")
              /\ result_aligned' = result_aligned
    /\ UNCHANGED <<inputs, device, alignment_model, diarize_model,
                   gc_collected, cache_emptied, saved, files, outcome>>

\* line 111: whisperx.DiarizationPipeline(...)
LoadDiarization ==
    /\ pc = "diarize_load"
    /\ calls' = calls \cup {"DiarizationPipeline"}
    /\ \E ok \in BOOLEAN :
         IF ok
         THEN /\ diarize_model' = "loaded"
              /\ pc' = "diarize"
              /\ UNCHANGED <<raised_in, warnings, segments_list>>
         ELSE /\ Caught("DiarizationPipeline")
              /\ diarize_model' = diarize_model
    /\ UNCHANGED <<inputs, device, alignment_model, result_aligned,
                   gc_collected, cache_emptied, saved, files, outcome>>

\* lines 112-113: diarize_model(audio_path), then assign_word_speakers
Diarize ==
    /\ pc = "diarize"
    /\ \E run_ok \in BOOLEAN, assign_ok \in BOOLEAN,
          labels \in Labellings(Len(result_aligned.segments)) :
         IF ~run_ok
         THEN /\ calls' = calls \cup {"diarize_model"}
              /\ Caught("diarize_model")
              /\ result_aligned' = result_aligned
         ELSE IF ~assign_ok
         THEN /\ calls' = calls \cup {"diarize_model", "assign_word_speakers"}
              /\ Caught("assign_word_speakers")
              /\ result_aligned' = result_aligned
         ELSE /\ calls' = calls \cup {"diarize_model", "assign_word_speakers"}
              /\ result_aligned' =
                    [bound    |-> TRUE,
                     segments |-> AssignResult(labels, result_aligned.segments)]
              /\ pc' = "cleanup"
              /\ UNCHANGED <<raised_in, warnings, segments_list>>
    /\ UNCHANGED <<inputs, device, alignment_model, diarize_model,
                   gc_collected, cache_emptied, saved, files, outcome>>

\* lines 116-119: del of the models, then gc.collect()
CollectGarbage ==
    /\ pc = "cleanup"
    /\ alignment_model' = "deleted"
    /\ diarize_model' = IF diarize_model = "loaded" THEN "deleted"
                        ELSE diarize_model
    /\ calls' = calls \cup {"gc.collect"}
    /\ \E ok \in BOOLEAN :
         IF ok
         THEN /\ gc_collected' = TRUE
              /\ pc' = "empty_cache"
              /\ UNCHANGED <<raised_in, warnings, segments_list>>
         ELSE /\ Caught("gc.collect")
              /\ gc_collected' = gc_collected
    /\ UNCHANGED <<inputs, device, result_aligned, cache_emptied, saved,
                   files, outcome>>

\* lines 120-123: torch.cuda.empty_cache(), then the aligned result is adopted
EmptyCache ==
    /\ pc = "empty_cache"
    /\ calls' = calls \cup {"empty_cache"}
    /\ \E ok \in BOOLEAN :
         IF ok
         THEN /\ cache_emptied' = TRUE
              /\ segments_list' = result_aligned.segments
              /\ pc' = "save"
              /\ UNCHANGED <<raised_in, warnings>>
         ELSE /\ Caught("empty_cache")
              /\ cache_emptied' = cache_emptied
    /\ UNCHANGED <<inputs, device, alignment_model, diarize_model,
                   result_aligned, gc_collected, saved, files, outcome>>

\* line 129 with lines 134-161: the whole of _save_outputs
SaveOutputs ==
    /\ pc = "save"
    /\ saved' = [called |-> TRUE, segments |-> segments_list]
    /\ LET r == save_outputs(segments_list)
       IN  /\ files' = r.files
           /\ IF r.raised
              THEN outcome' = "raised" /\ pc' = "exit"
              ELSE outcome' = outcome /\ pc' = "finish"
    /\ UNCHANGED <<inputs, segments_list, device, alignment_model,
                   diarize_model, result_aligned, gc_collected, cache_emptied,
                   warnings, calls, raised_in>>

\* lines 131-132: the closing log line; transcribe returns
Finish ==
    /\ pc = "finish"
    /\ pc' = "exit"
    /\ outcome' = "returned"
    /\ UNCHANGED <<inputs, segments_list, device, alignment_model,
                   diarize_model, result_aligned, gc_collected, cache_emptied,
                   warnings, calls, raised_in, saved, files>>

Next ==
    \/ Recognize
    \/ ListSegments
    \/ LoadAlignModel
    \/ Align
    \/ LoadDiarization
    \/ Diarize
    \/ CollectGarbage
    \/ EmptyCache
    \/ SaveOutputs
    \/ Finish

Spec == Init /\ [][Next]_vars

-----------------------------------------------------------------------------
(* _format_timestamp called on its own *)

\* 0..2 and 59 minutes and seconds, hours up to and past 99, and sub-second
\* parts on, between and just below millisecond boundaries
FormatInputs ==
    {((h * 60 + m) * 60 + s) * TicksPerSecond + f :
        h \in {0, 1, 99, 100, 101}, m \in {0, 1, 59}, s \in {0, 1, 59},
        f \in {0, 1, TicksPerMs, 500 * TicksPerMs, TicksPerSecond - 1}}

FormatInit ==
    /\ fmt_in \in FormatInputs
    /\ fmt_out = <<>>
    /\ cuda_available = FALSE
    /\ self_device = "cpu"
    /\ align_output = FALSE
    /\ detect_speakers = FALSE
    /\ recognition = <<>>
    /\ pc = "exit"
    /\ Idle

\* lines 163-170
Format ==
    /\ fmt_out = <<>>
    /\ fmt_out' = format_timestamp(fmt_in)
    /\ UNCHANGED <<align_output, detect_speakers, self_device, cuda_available,
                   recognition, pc, segments_list, device, alignment_model,
                   diarize_model, result_aligned, gc_collected, cache_emptied,
                   warnings, calls, raised_in, saved, files, outcome, fmt_in>>

FormatNext == Format

FormatSpec == FormatInit /\ [][FormatNext]_vars

-----------------------------------------------------------------------------
(* Vocabulary of the properties *)

AlignmentCalls == {"load_align_model", "align"}

DiarizationCalls ==
    {"DiarizationPipeline", "diarize_model", "assign_word_speakers"}

AllFilesWritten ==
    files.srt.exists /\ files.txt.exists /\ files.json.exists

\* the subtitle file is one complete cue per segment of `segments`: cue
\* numbers 1..N, the segment's own timestamps, and `line(i)` as text
SrtRenders(segments, line(_)) ==
    /\ Len(files.srt.content) = 4 * Len(segments)
    /\ \A i \in 1..Len(segments) :
         /\ files.srt.content[4 * i - 3] = Decimal(i)
         /\ files.srt.content[4 * i - 2] =
                format_timestamp(segments[i].start) \o <<" --> ">> \o
                format_timestamp(segments[i].end)
         /\ files.srt.content[4 * i - 1] = line(i)
         /\ files.srt.content[4 * i] = <<>>

\* the text line of the i-th cue of the subtitle file, when it was written
SrtHasText(i) == Len(files.srt.content) >= 4 * i - 1

\* the text line of the i-th block of the plain-text file, when written
TxtHasText(i) == Len(files.txt.content) >= 3 * i - 1

\* "[speaker] text" when the segment has a speaker, the bare text otherwise
ExpectedText(segment) ==
    IF "speaker" \in DOMAIN segment
    THEN <<"[">> \o <<segment.speaker>> \o <<"] ">> \o <<segment.text>>
    ELSE <<segment.text>>

DiarizationSucceeded ==
    /\ "assign_word_speakers" \in calls
    /\ raised_in \notin DiarizationCalls

-----------------------------------------------------------------------------
(* C1 *)

\* C1: when recognition succeeds and load_align_model or align raises,
\* transcribe returns without raising, a warning is logged, the .srt, .txt
\* and .json files are all written and the transcript written is the raw
\* recognition result.
C1_AlignmentFailureAbsorbed ==
    (pc = "exit" /\ raised_in \in AlignmentCalls) =>
        /\ outcome = "returned"
        /\ warnings >= 1
        /\ AllFilesWritten
        /\ SrtRenders(recognition, LAMBDA i : <<recognition[i].text>>)

-----------------------------------------------------------------------------
(* C2 *)

-----------------------------------------------------------------------------
(* C3 *)

\* C3: on every exit from the alignment/diarization stage after the
\* alignment model was loaded, garbage collection was forced and the
\* accelerator cache cleared before transcribe returns.
C3_ReleasedOnEveryExit ==
    (pc = "exit" /\ alignment_model # "unbound") =>
        gc_collected /\ cache_emptied

-----------------------------------------------------------------------------
(* C4 *)

\* C4: when faster_model.transcribe or list() raises, transcribe raises,
\* neither the alignment nor the diarization collaborator is invoked and
\* none of the three output files is written.
C4_RecognitionFailurePropagates ==
    (raised_in \in {"faster_model.transcribe", "list"}) =>
        /\ outcome = "raised"
        /\ pc = "exit"
        /\ calls \cap (AlignmentCalls \cup DiarizationCalls) = {}
        /\ ~saved.called
        /\ files = NoFiles

C4_Witness ==
    /\ pc = "exit"
    /\ raised_in = "list"
    /\ align_output
    /\ Len(recognition) >= 1

-----------------------------------------------------------------------------
(* C5 *)

\* C5: the diarization collaborator is invoked if and only if
\* detect_speakers is true, alignment was enabled and whisperx.align
\* returned, and the device selected at line 79 is not "cpu"; never when
\* alignment is disabled or failed, nor when CUDA is unavailable.
C5_DiarizationGate ==
    /\ (calls \cap DiarizationCalls # {}) =>
         /\ "DiarizationPipeline" \in calls
         /\ detect_speakers
         /\ align_output
         /\ result_aligned.bound
         /\ device # "cpu"
         /\ cuda_available
         /\ raised_in \notin AlignmentCalls
    /\ (/\ detect_speakers
        /\ result_aligned.bound
        /\ device # "cpu"
        /\ pc # "diarize_load") => "DiarizationPipeline" \in calls

C5_Witness ==
    /\ pc = "exit"
    /\ "DiarizationPipeline" \in calls
    /\ self_device = "cpu"

-----------------------------------------------------------------------------
(* C6 *)

\* C6: with align_output false, the sequence handed to the output writer
\* is the recognition stage's output unchanged (same segments, order and
\* boundaries), and neither the alignment nor the diarization collaborator
\* is invoked.
C6_NoAlignKeepsRaw ==
    ~align_output =>
        /\ calls \cap (AlignmentCalls \cup DiarizationCalls) = {}
        /\ saved.called => saved.segments = recognition
        /\ (pc = "exit" /\ raised_in = "none") => saved.called

C6_Witness ==
    /\ ~align_output
    /\ saved.called
    /\ Len(saved.segments) >= 2

-----------------------------------------------------------------------------
(* C7 *)

\* C7: for any sequence of N segments passed to the output writer, the
\* subtitle file holds exactly N cues numbered 1..N in order, the i-th
\* with the i-th segment's timestamps and text.
C7_CuesNumbered ==
    saved.called =>
        SrtRenders(saved.segments, LAMBDA i : ExpectedText(saved.segments[i]))

-----------------------------------------------------------------------------
(* C8 *)

\* C8: every text line written to the subtitle file and to the plain-text
\* file is "[speaker] text" with the segment's own speaker when it has one
\* and the bare text when it has none, the two files carrying the same
\* lines; when diarization did not run or did not succeed no written text
\* line is prefixed.
C8_SpeakerPrefix ==
    saved.called =>
        \A i \in 1..Len(saved.segments) :
            /\ SrtHasText(i) <=> TxtHasText(i)
            /\ SrtHasText(i) =>
                 /\ files.srt.content[4 * i - 1] =
                        ExpectedText(saved.segments[i])
                 /\ files.txt.content[3 * i - 1] =
                        ExpectedText(saved.segments[i])
                 /\ ~DiarizationSucceeded =>
                        files.srt.content[4 * i - 1] =
                            <<saved.segments[i].text>>

C8_Witness ==
    /\ pc = "exit"
    /\ outcome = "returned"
    /\ DiarizationSucceeded
    /\ \E i, j \in 1..Len(saved.segments) :
         /\ SrtHasText(i) /\ TxtHasText(i)
         /\ SrtHasText(j) /\ TxtHasText(j)
         /\ "speaker" \in DOMAIN saved.segments[i]
         /\ "speaker" \notin DOMAIN saved.segments[j]

-----------------------------------------------------------------------------
(* C9 *)

DigitValue(c) == CHOOSE d \in 0..9 : DigitChars[d + 1] = c

IsDigit(c) == \E d \in 0..9 : DigitChars[d + 1] = c

\* the number two or three digit characters denote
Number2(a, b) == 10 * DigitValue(a) + DigitValue(b)

Number3(a, b, c) == 100 * DigitValue(a) + 10 * DigitValue(b) + DigitValue(c)

\* `out` is HH:MM:SS,mmm, two digits each for hours, minutes and seconds
\* and three for milliseconds, and its fields are those of `seconds`
\* truncated to the millisecond
RendersTruncated(out, seconds) ==
    /\ Len(out) = 12
    /\ out[3] = ":" /\ out[6] = ":" /\ out[9] = ","
    /\ \A k \in {1, 2, 4, 5, 7, 8, 10, 11, 12} : IsDigit(out[k])
    /\ Number2(out[1], out[2]) = seconds \div (3600 * TicksPerSecond)
    /\ Number2(out[4], out[5]) =
           (seconds % (3600 * TicksPerSecond)) \div (60 * TicksPerSecond)
    /\ Number2(out[7], out[8]) =
           (seconds % (60 * TicksPerSecond)) \div TicksPerSecond
    /\ Number3(out[10], out[11], out[12]) * TicksPerSecond
           <= (seconds % TicksPerSecond) * 1000
    /\ (Number3(out[10], out[11], out[12]) + 1) * TicksPerSecond
           > (seconds % TicksPerSecond) * 1000

\* C9 as stated: for every non-negative input, _format_timestamp returns
\* HH:MM:SS,mmm with exactly two digits for hours, minutes and seconds and
\* three for milliseconds, the fields truncated, never rounded.
C9_TwoDigitHoursAlways ==
    fmt_out # <<>> => RendersTruncated(fmt_out, fmt_in)

\* C9 amended: for every non-negative input below 360000 seconds (100
\* hours), _format_timestamp returns HH:MM:SS,mmm with exactly two digits
\* for hours, minutes and seconds and three for milliseconds, the fields
\* truncated, never rounded; from 360000 seconds on the hours field has
\* more than two digits.
C9_TwoDigitHoursBelow100 ==
    fmt_out # <<>> =>
        IF fmt_in < 100 * 3600 * TicksPerSecond
        THEN RendersTruncated(fmt_out, fmt_in)
        ELSE Len(fmt_out) > 12

C9_Witness ==
    /\ fmt_out = <<"0", "0", ":", "0", "0", ":", "5", "9", ",", "9", "9", "9">>
    /\ fmt_in = 60 * TicksPerSecond - 1

-----------------------------------------------------------------------------
(* C10 *)

\* C10: the sequence handed to the writer is one whole sequence: the
\* aligned (and, when diarization ran, speaker-tagged) result when every
\* step inside the try block returned (model loading, alignment,
\* diarization when gated on, gc.collect and torch.cuda.empty_cache), and
\* the raw recognition list as it was when any of them raised.
C10_WholeSequence ==
    saved.called =>
        IF align_output /\ raised_in = "none"
        THEN /\ result_aligned.bound
             /\ saved.segments = result_aligned.segments
             /\ AlignmentCalls \subseteq calls
             /\ gc_collected /\ cache_emptied
             /\ DiarizationGate => DiarizationCalls \subseteq calls
        ELSE saved.segments = recognition

C10_Witness ==
    /\ saved.called
    /\ raised_in = "empty_cache"
    /\ "assign_word_speakers" \in calls
    /\ Len(recognition) >= 1
    /\ saved.segments # result_aligned.segments

=============================================================================
